---- MODULE Spec2Model ----
(***************************************************************************)
(* A model of the document verification backend:                           *)
(*   backend/services/document_processor.py  (DocumentProcessor)           *)
(*   backend/services/document_parser.py     (DocumentParser)              *)
(*   backend/services/face_detection_service.py (FaceDetectionService)     *)
(*   backend/services/gemini_ocr_service.py  (GeminiOCRService)            *)
(*                                                                         *)
(* Python strings are sequences of one-character strings, so that strip,   *)
(* lower, replace and the regular expressions are computed.  Python values *)
(* of a FieldMap are tagged records [t, s, n].  A dict is a function whose *)
(* DOMAIN is its key set; an optional dict (result['validation'] = {}) is  *)
(* a sequence of length 0 or 1.                                            *)
(***************************************************************************)
EXTENDS Integers, Sequences, FiniteSets, TLC

VARIABLES
    pc,        \* position of process_document: the stage about to run, or "done"
    doc,       \* the call: document_type, use_gemini, detect_face, and raw_text,
               \* the text an OCR pass recognizes in the image at image_path
    now,       \* datetime.now() as <<year, month, day>> (time of day is after midnight)
    result,    \* the result dict of process_document
    trace,     \* what each collaborator was asked and answered (history)
    cleanPc,   \* position of a call of _validate_and_clean_data
    cleanIn,   \* its argument
    cleanOut,  \* its return value
    valPc,     \* position of a caller that validates one FieldMap twice
    valData,   \* the FieldMap it passes to validate_document_data
    valType,   \* the document_type it passes
    valNow,    \* datetime.now() of that caller's clock
    valFirstNow, \* the clock at the first call
    valFirst,  \* what the first call did: raised, or the report it returned
    valOther,  \* what a call on another FieldMap, made in between, did
    valSecond, \* what the second call did
    rtPc,      \* position of an extract-then-validate round trip
    rtText,    \* the raw text given to parse_document
    rtParsed,  \* the FieldMap parse_document returned
    rtReport,  \* what validate_document_data did with that FieldMap
    detPc,     \* position of OfflineAIDetector.detect: the step about to run
    detScores, \* the five sub-scores computed so far
    detFailed, \* the analyzers in which an exception was raised (history)
    detReturn, \* the dict detect returned
    uploaded_files,     \* routes.uploaded_files: the ids of the uploaded documents
    nextDoc,            \* the next fresh document id
    processing_jobs,    \* routes.processing_jobs: job id -> job record
    processing_results, \* routes.processing_results: document id -> result
    bgTasks,            \* the scheduled background tasks: job id -> position and locals
    response            \* the last response of process_document (id: the document
                        \* the request named) or get_job_status (id: 0)

pipelineVars == <<pc, doc, now, result, trace>>

cleanVars == <<cleanPc, cleanIn, cleanOut>>

valVars == <<valPc, valData, valType, valNow, valFirstNow, valFirst, valOther, valSecond>>

rtVars == <<rtPc, rtText, rtParsed, rtReport>>

detVars == <<detPc, detScores, detFailed, detReturn>>

jobVars == <<uploaded_files, nextDoc, processing_jobs, processing_results, bgTasks, response>>

vars == <<pipelineVars, cleanVars, valVars, rtVars, detVars, jobVars>>

\* the variables a process_document run does not touch
exceptPipeline == <<cleanVars, valVars, rtVars, detVars, jobVars>>

\* the variables a call of _validate_and_clean_data does not touch
exceptClean == <<pipelineVars, valVars, rtVars, detVars, jobVars>>

\* the variables a call of validate_document_data does not touch
exceptVal == <<pipelineVars, cleanVars, rtVars, detVars, jobVars>>

\* the variables an extract-then-validate round trip does not touch
exceptRt == <<pipelineVars, cleanVars, valVars, detVars, jobVars>>

\* the variables a call of OfflineAIDetector.detect does not touch
exceptDet == <<pipelineVars, cleanVars, valVars, rtVars, jobVars>>

\* the variables the API routes and the background task do not touch
exceptJobs == <<pipelineVars, cleanVars, valVars, rtVars, detVars>>

-----------------------------------------------------------------------------
(* Characters and strings *)

Upper == {"A", "B", "C", "D", "E", "F", "G", "H", "I", "J", "K", "L", "M",
          "N", "O", "P", "Q", "R", "S", "T", "U", "V", "W", "X", "Y", "Z"}

Digit == {"0", "1", "2", "3", "4", "5", "6", "7", "8", "9"}

Whitespace == {" ", "\t", "\n"}

\* str.lower() on one character
LowerChar(c) ==
    CASE c = "N" -> "n"
      [] c = "U" -> "u"
      [] c = "L" -> "l"
      [] c = "X" -> "x"
      [] c = "A" -> "a"
      [] c = "B" -> "b"
      [] OTHER -> c

Lower(s) == [i \in 1..Len(s) |-> LowerChar(s[i])]

RECURSIVE LStrip(_)
LStrip(s) == IF s # <<>> /\ Head(s) \in Whitespace THEN LStrip(Tail(s)) ELSE s

RECURSIVE RStrip(_)
RStrip(s) ==
    IF s # <<>> /\ s[Len(s)] \in Whitespace
    THEN RStrip(SubSeq(s, 1, Len(s) - 1))
    ELSE s

\* str.strip()
Strip(s) == RStrip(LStrip(s))

\* str.replace(c, '')
RECURSIVE RemoveChar(_, _)
RemoveChar(s, c) ==
    IF s = <<>> THEN <<>>
    ELSE IF Head(s) = c THEN RemoveChar(Tail(s), c)
    ELSE <<Head(s)>> \o RemoveChar(Tail(s), c)

AllIn(s, lo, hi, set) == \A i \in lo..hi : s[i] \in set

\* [A-Z]{5}[0-9]{4}[A-Z]
PanBody(s) ==
    /\ Len(s) = 10
    /\ AllIn(s, 1, 5, Upper)
    /\ AllIn(s, 6, 9, Digit)
    /\ s[10] \in Upper

\* \d{12}
AadhaarBody(s) == Len(s) = 12 /\ AllIn(s, 1, 12, Digit)

\* [A-Z]\d{7}
PassportBody(s) == Len(s) = 8 /\ s[1] \in Upper /\ AllIn(s, 2, 8, Digit)

\* the body of the pattern that validates a field
PatternBody(field, s) ==
    CASE field = "pan_number" -> PanBody(s)
      [] field = "aadhaar_number" -> AadhaarBody(s)
      [] field = "passport_number" -> PassportBody(s)

\* re.match(r'^...$', s): '$' also matches just before one trailing newline
AnchoredMatch(field, s) ==
    \/ PatternBody(field, s)
    \/ /\ s # <<>>
       /\ s[Len(s)] = "\n"
       /\ PatternBody(field, SubSeq(s, 1, Len(s) - 1))

-----------------------------------------------------------------------------
(* Python values held in a FieldMap *)

None == [t |-> "none", s |-> <<>>, n |-> 0]

StrVal(s) == [t |-> "str", s |-> s, n |-> 0]

IntVal(n) == [t |-> "int", s |-> <<>>, n |-> n]

BoolVal(b) == [t |-> "bool", s |-> <<>>, n |-> IF b THEN 1 ELSE 0]

\* a list of n elements (the elements are not interpreted)
ListVal(n) == [t |-> "list", s |-> <<>>, n |-> n]

\* bool(v)
Truthy(v) ==
    CASE v.t = "none" -> FALSE
      [] v.t = "str" -> v.s # <<>>
      [] OTHER -> v.n # 0

NullMarker == <<"n", "u", "l", "l">>

EmptyDict == [k \in {} |-> None]

\* DocumentParser._validate_and_clean_data
ValidateAndCleanData(data) ==
    LET kept(k) ==
            LET value == data[k] IN
            /\ Truthy(value)
            /\ value # StrVal(NullMarker)
            /\ value.t # "none"
            /\ (value.t = "str" =>
                    /\ Lower(Strip(value.s)) # NullMarker
                    /\ Strip(value.s) # <<>>)
    IN [k \in {k \in DOMAIN data : kept(k)} |->
            IF data[k].t = "str" THEN StrVal(Strip(data[k].s)) ELSE data[k]]

-----------------------------------------------------------------------------
(* datetime.strptime for the four layouts of validate_document_data *)

DigitVal(c) == CHOOSE n \in 0..9 : <<"0", "1", "2", "3", "4", "5", "6", "7", "8", "9">>[n + 1] = c

RECURSIVE NumVal(_)
NumVal(s) == IF s = <<>> THEN 0 ELSE NumVal(SubSeq(s, 1, Len(s) - 1)) * 10 + DigitVal(s[Len(s)])

\* str.split(sep): the parts between the separators
RECURSIVE Split(_, _)
Split(s, sep) ==
    IF \A i \in 1..Len(s) : s[i] # sep THEN <<s>>
    ELSE LET i == CHOOSE i \in 1..Len(s) : s[i] = sep /\ \A j \in 1..(i - 1) : s[j] # sep
         IN <<SubSeq(s, 1, i - 1)>> \o Split(SubSeq(s, i + 1, Len(s)), sep)

NonZeroDigit == Digit \ {"0"}

\* %d : 3[0-1]|[1-2]\d|0[1-9]|[1-9]| [1-9]
DayDirective(p) ==
    \/ Len(p) = 1 /\ p[1] \in NonZeroDigit
    \/ /\ Len(p) = 2
       /\ \/ p[1] = "3" /\ p[2] \in {"0", "1"}
          \/ p[1] \in {"1", "2"} /\ p[2] \in Digit
          \/ p[1] \in {"0", " "} /\ p[2] \in NonZeroDigit

\* %m : 1[0-2]|0[1-9]|[1-9]
MonthDirective(p) ==
    \/ Len(p) = 1 /\ p[1] \in NonZeroDigit
    \/ /\ Len(p) = 2
       /\ \/ p[1] = "1" /\ p[2] \in {"0", "1", "2"}
          \/ p[1] = "0" /\ p[2] \in NonZeroDigit

\* %Y : \d\d\d\d    %y : \d\d
YearDirective(p, ylen) == Len(p) = ylen /\ AllIn(p, 1, ylen, Digit)

IsLeap(y) == (y % 4 = 0 /\ y % 100 # 0) \/ y % 400 = 0

DaysInMonth(y, m) ==
    IF m = 2 THEN (IF IsLeap(y) THEN 29 ELSE 28)
    ELSE IF m \in {4, 6, 9, 11} THEN 30 ELSE 31

\* %y: 69..99 are 1969..1999, 00..68 are 2000..2068
YearOf(p, ylen) ==
    IF ylen = 4 THEN NumVal(p)
    ELSE IF NumVal(p) >= 69 THEN 1900 + NumVal(p) ELSE 2000 + NumVal(p)

\* datetime.strptime(s, '%d<sep>%m<sep>%Y|%y'): <<y, m, d>>, or <<>> for ValueError
StrpTime(s, sep, ylen) ==
    LET parts == Split(s, sep) IN
    IF /\ Len(parts) = 3
       /\ DayDirective(parts[1])
       /\ MonthDirective(parts[2])
       /\ YearDirective(parts[3], ylen)
    THEN LET y == YearOf(parts[3], ylen)
             m == NumVal(parts[2])
             d == NumVal(RemoveChar(parts[1], " "))
         IN IF y >= 1 /\ d <= DaysInMonth(y, m) THEN <<y, m, d>> ELSE <<>>
    ELSE <<>>

\* date_formats = ['%d/%m/%Y', '%d-%m-%Y', '%d/%m/%y', '%d-%m-%y']
date_formats == << <<"/", 4>>, <<"-", 4>>, <<"/", 2>>, <<"-", 2>> >>

\* the loop over date_formats: the first layout that parses wins; a value
\* that is not a str makes every strptime raise TypeError, which the loop swallows
ParseDob(value) ==
    IF value.t # "str" THEN <<>>
    ELSE LET ok == {i \in 1..Len(date_formats) :
                       StrpTime(value.s, date_formats[i][1], date_formats[i][2]) # <<>>}
         IN IF ok = {} THEN <<>>
            ELSE LET i == CHOOSE i \in ok : \A j \in ok : i <= j
                 IN StrpTime(value.s, date_formats[i][1], date_formats[i][2])

\* the comparison taken as parsed_date >= the day of datetime.now()
DateNotBeforeNow(d, t) ==
    \/ d[1] > t[1]
    \/ d[1] = t[1] /\ d[2] > t[2]
    \/ d[1] = t[1] /\ d[2] = t[2] /\ d[3] >= t[3]

\* parsed_date (midnight of that day) > datetime.now() (some time during day t)
DateAfterNow(d, t) ==
    \/ d[1] > t[1]
    \/ d[1] = t[1] /\ d[2] > t[2]
    \/ d[1] = t[1] /\ d[2] = t[2] /\ d[3] > t[3]

-----------------------------------------------------------------------------
(* DocumentParser.validate_document_data *)

Msg(kind, detail) == <<kind, detail>>

REQUIRED_FIELDS(document_type) ==
    CASE document_type = "aadhaar" -> <<"name", "aadhaar_number", "dob">>
      [] document_type = "pan" -> <<"name", "pan_number", "father_name">>
      [] document_type = "driving_license" -> <<"name", "license_number", "dob">>
      [] document_type = "passport" -> <<"name", "passport_number", "dob">>
      [] document_type = "voter_id" -> <<"name", "voter_id">>
      [] OTHER -> <<>>

\* re.match on a value that is not a str raises TypeError; None.replace raises
\* AttributeError: the call raises and returns no report
ValidateRaises(data, document_type) ==
    \/ document_type = "pan" /\ "pan_number" \in DOMAIN data /\ data["pan_number"].t # "str"
    \/ document_type = "aadhaar" /\ "aadhaar_number" \in DOMAIN data
           /\ data["aadhaar_number"].t # "str"
    \/ document_type = "passport" /\ "passport_number" \in DOMAIN data
           /\ data["passport_number"].t # "str"

RequiredErrors(data, document_type) ==
    LET missing == SelectSeq(REQUIRED_FIELDS(document_type),
                             LAMBDA f : f \notin DOMAIN data \/ ~Truthy(data[f]))
    IN [i \in 1..Len(missing) |-> Msg("Missing required field", missing[i])]

FormatErrors(data, document_type) ==
    (IF document_type = "pan" /\ "pan_number" \in DOMAIN data
        /\ ~AnchoredMatch("pan_number", data["pan_number"].s)
     THEN <<Msg("Invalid PAN number format", "")>> ELSE <<>>)
    \o
    (IF document_type = "aadhaar" /\ "aadhaar_number" \in DOMAIN data
        /\ ~AnchoredMatch("aadhaar_number", RemoveChar(data["aadhaar_number"].s, " "))
     THEN <<Msg("Invalid Aadhaar number format", "")>> ELSE <<>>)
    \o
    (IF document_type = "passport" /\ "passport_number" \in DOMAIN data
        /\ ~AnchoredMatch("passport_number", data["passport_number"].s)
     THEN <<Msg("Invalid passport number format", "")>> ELSE <<>>)

DobErrors(data, t) ==
    IF "dob" \in DOMAIN data /\ ParseDob(data["dob"]) # <<>>
       /\ DateAfterNow(ParseDob(data["dob"]), t)
    THEN <<Msg("Date of birth cannot be in the future", "")>> ELSE <<>>

DobWarnings(data) ==
    IF "dob" \in DOMAIN data /\ ParseDob(data["dob"]) = <<>>
    THEN <<Msg("Could not validate date of birth format", "")>> ELSE <<>>

\* the report returned when the call does not raise; t is datetime.now()
ValidateDocumentData(data, document_type, t) ==
    LET required == REQUIRED_FIELDS(document_type)
        errors == RequiredErrors(data, document_type)
                      \o FormatErrors(data, document_type)
                      \o DobErrors(data, t)
    IN [is_valid |-> Len(errors) = 0,
        errors |-> errors,
        warnings |-> DobWarnings(data),
        validation_details |->
            [required_fields_present |->
                 \A i \in 1..Len(required) : required[i] \in DOMAIN data]]

-----------------------------------------------------------------------------
(* DocumentParser.parse_document, for raw text made of digits and whitespace. *)
(* In such text the dob pattern (needs / or -), the gender words, the name    *)
(* keyword and the identifier patterns of the other document types (all need  *)
(* letters) never match, so only the Aadhaar number can be extracted.         *)

LowerLetters == {"a", "b", "c", "d", "e", "f", "g", "h", "i", "j", "k", "l", "m",
                 "n", "o", "p", "q", "r", "s", "t", "u", "v", "w", "x", "y", "z"}

\* \w
WordChars == Digit \cup Upper \cup LowerLetters \cup {"_"}

IsWordAt(text, j) == j \in 1..Len(text) /\ text[j] \in WordChars

\* \b between positions i - 1 and i
WordBoundary(text, i) == IsWordAt(text, i - 1) # IsWordAt(text, i)

\* \d{4} s1 \d{4} s2 \d{4} from position i, where s1, s2 \in {0, 1} say whether
\* \s? consumed a character: the position after the match, or 0
GroupsAt(text, i, s1, s2) ==
    LET g2 == i + 4 + s1
        g3 == g2 + 4 + s2
        e == g3 + 4
    IN IF /\ e - 1 <= Len(text)
          /\ WordBoundary(text, i)
          /\ AllIn(text, i, i + 3, Digit)
          /\ (s1 = 1 => text[i + 4] \in Whitespace)
          /\ AllIn(text, g2, g2 + 3, Digit)
          /\ (s2 = 1 => text[g2 + 4] \in Whitespace)
          /\ AllIn(text, g3, g3 + 3, Digit)
          /\ WordBoundary(text, e)
       THEN e ELSE 0

\* \b\d{4}\s?\d{4}\s?\d{4}\b at position i: \s? is greedy, then backtracks
AadhaarMatchAt(text, i) ==
    IF GroupsAt(text, i, 1, 1) # 0 THEN GroupsAt(text, i, 1, 1)
    ELSE IF GroupsAt(text, i, 1, 0) # 0 THEN GroupsAt(text, i, 1, 0)
    ELSE IF GroupsAt(text, i, 0, 1) # 0 THEN GroupsAt(text, i, 0, 1)
    ELSE GroupsAt(text, i, 0, 0)

\* \b\d{12}\b at position i
CompactMatchAt(text, i) == GroupsAt(text, i, 0, 0)

\* where a match of PATTERNS['aadhaar'][pattern] starting at i ends, 0 for none
MatchAt(pattern, text, i) ==
    IF pattern = "aadhaar_number" THEN AadhaarMatchAt(text, i)
    ELSE CompactMatchAt(text, i)

\* re.search(pattern, text).group(0): the leftmost match, or <<>> for no match
Search(pattern, text) ==
    LET starts == {i \in 1..Len(text) : MatchAt(pattern, text, i) # 0} IN
    IF starts = {} THEN <<>>
    ELSE LET i == CHOOSE i \in starts : \A j \in starts : i <= j
         IN SubSeq(text, i, MatchAt(pattern, text, i) - 1)

\* DocumentParser._parse_aadhaar
ParseAadhaar(text) ==
    LET first == Search("aadhaar_number", text)
        aadhaar_match == IF first # <<>> THEN first ELSE Search("aadhaar_number_compact", text)
        aadhaar_num == RemoveChar(aadhaar_match, " ")
    IN IF aadhaar_match # <<>>
       THEN [aadhaar_number |->
                 StrVal(SubSeq(aadhaar_num, 1, 4) \o <<" ">>
                        \o SubSeq(aadhaar_num, 5, 8) \o <<" ">>
                        \o SubSeq(aadhaar_num, 9, Len(aadhaar_num)))]
       ELSE EmptyDict

\* DocumentParser.parse_document without structured_data
ParseDocument(text, document_type) ==
    ValidateAndCleanData(IF document_type = "aadhaar" THEN ParseAadhaar(text) ELSE EmptyDict)

-----------------------------------------------------------------------------
(* The collaborators of process_document *)

\* self.gemini_service.check_image_authenticity(image_path): what the call at
\* the top of the try block can do.  The processor reads ['success'] and
\* ['authenticity']; "raise" is the call raising (GeminiOCRService defines no
\* such method, so the attribute lookup itself raises on that class).
AuthOutcomes ==
    {[kind |-> "ok", is_ai_generated |-> b] : b \in BOOLEAN}
        \cup {[kind |-> "fail", is_ai_generated |-> FALSE],
              [kind |-> "raise", is_ai_generated |-> FALSE]}

\* the 'authenticity' dict of a successful answer
Authenticity(out) ==
    [is_ai_generated |-> out.is_ai_generated, detection_method |-> "gemini"]

\* GeminiOCRService.extract_structured_data: api is what the model call did:
\* answered JSON (kind "json", the parsed object in data), answered text that
\* is not JSON ("bad_json"), or raised ("api_error").  Every exception is
\* turned into success = False.
ExtractStructuredData(api) ==
    IF api.kind = "json"
    THEN [success |-> TRUE, parsed_data |-> api.data, error |-> ""]
    ELSE IF api.kind = "bad_json"
    THEN [success |-> FALSE, parsed_data |-> EmptyDict, error |-> "JSON parsing error"]
    ELSE [success |-> FALSE, parsed_data |-> EmptyDict, error |-> "api error"]

\* GeminiOCRService.validate_document: success with a validation dict, or
\* success = False for any exception
ValidateDocumentOutcomes == {"ok", "fail"}

\* FaceDetectionService.detect_faces: lib is what DeepFace.represent did:
\* returned embeddings ("faces"), returned none ("no_faces"), or raised
\* ("raise", also the NameError of the missing import).
DetectFaces(lib) ==
    IF lib = "faces" THEN [success |-> TRUE, error |-> "", face_count |-> 1]
    ELSE IF lib = "no_faces"
    THEN [success |-> FALSE, error |-> "No face detected in image", face_count |-> 0]
    ELSE [success |-> FALSE, error |-> "exception text", face_count |-> 0]

DeepFaceOutcomes == {"faces", "no_faces", "raise"}

\* FaceDetectionService.analyze_face_quality / detect_liveness: 'success' of
\* the answer; both catch every exception
FaceQualityOutcomes == BOOLEAN

LivenessOutcomes == BOOLEAN

\* self.parser.verify_bill_total(parsed_data): the processor reads
\* .get('success') and .get('is_total_correct'); "raise" is the call raising
\* (DocumentParser defines no such method).
BillOutcomes ==
    {[kind |-> "ok", success |-> TRUE, is_total_correct |-> TRUE],
     [kind |-> "ok", success |-> TRUE, is_total_correct |-> FALSE],
     [kind |-> "ok", success |-> FALSE, is_total_correct |-> FALSE],
     [kind |-> "raise", success |-> FALSE, is_total_correct |-> FALSE]}

-----------------------------------------------------------------------------
(* The inputs of a run *)

DocumentTypes == {"aadhaar", "pan", "driving_license", "passport", "voter_id", "bill"}

S_Name == <<"A", "b">>
S_Pan == <<"A", "B", "C", "D", "E", "1", "2", "3", "4", "F">>
S_BadPan == <<"A", "B", "1">>
S_Aadhaar == <<"1", "2", "3", "4", " ", "5", "6", "7", "8", " ", "9", "0", "1", "2">>
S_BadAadhaar == <<"1", "2", "3", "4">>
S_Passport == <<"A", "1", "2", "3", "4", "5", "6", "7">>
S_BadPassport == <<"a", "1">>
S_License == <<"D", "L", "0", "1">>
S_Voter == <<"A", "B", "C", "1", "2", "3", "4", "5", "6", "7">>
S_Dob == <<"1", "5", "/", "0", "8", "/", "1", "9", "9", "0">>
S_DobShort == <<"1", "5", "-", "8", "-", "9", "0">>
S_BadDob == <<"1", "9", "9", "0">>
S_Total == <<"1", "0">>

\* the values the extraction service can put under a key of its JSON answer
\* (the prompt asks for null when a field is not found)
FieldChoices(field) ==
    CASE field = "name" -> {None, StrVal(S_Name)}
      [] field = "father_name" -> {None, StrVal(S_Name)}
      [] field = "pan_number" -> {None, StrVal(S_Pan), StrVal(S_BadPan)}
      [] field = "aadhaar_number" -> {None, StrVal(S_Aadhaar), StrVal(S_BadAadhaar)}
      [] field = "passport_number" -> {None, StrVal(S_Passport), StrVal(S_BadPassport)}
      [] field = "license_number" -> {StrVal(<<>>), StrVal(S_License)}
      [] field = "voter_id" -> {None, StrVal(S_Voter)}
      [] field = "dob" -> {None, StrVal(S_Dob), StrVal(S_DobShort), StrVal(S_BadDob)}
      [] OTHER -> {StrVal(S_Total)}

AnswerFields(document_type) ==
    IF document_type = "bill" THEN {"total"}
    ELSE {REQUIRED_FIELDS(document_type)[i] : i \in 1..Len(REQUIRED_FIELDS(document_type))}
             \cup {"dob"}

\* the dict m with key f set to v
Extend(m, f, v) == [k \in DOMAIN m \cup {f} |-> IF k = f THEN v ELSE m[k]]

RECURSIVE MapsOver(_)
MapsOver(fields) ==
    IF fields = {} THEN {EmptyDict}
    ELSE LET f == CHOOSE f \in fields : TRUE
             rest == MapsOver(fields \ {f})
         IN rest \cup {Extend(m, f, v) : m \in rest, v \in FieldChoices(f)}

\* the JSON objects the extraction service can answer for a document type:
\* any subset of the type's keys, each with one of its values
AnswerMaps(document_type) == MapsOver(AnswerFields(document_type))

ApiOutcomes(document_type) ==
    {[kind |-> "json", data |-> m] : m \in AnswerMaps(document_type)}
        \cup {[kind |-> "bad_json", data |-> EmptyDict],
              [kind |-> "api_error", data |-> EmptyDict]}

\* the text recognized in the image: none, or an Aadhaar number
RawTexts == {<<>>, S_Aadhaar}

\* datetime.now() of the run: a day after, and the day before, the sample dob
NowDates == {<<2026, 11, 6>>, <<1990, 8, 14>>}

-----------------------------------------------------------------------------
(* DocumentProcessor.process_document *)

NewResult(document_type) ==
    [document_type |-> document_type,
     overall_status |-> "processing",
     ocr_result |-> <<>>,
     parsed_data |-> EmptyDict,
     validation |-> <<>>,
     gemini_validation |-> <<>>,
     face_detection |-> <<>>,
     authenticity_check |-> <<>>,
     bill_verification |-> <<>>,
     errors |-> <<>>,
     warnings |-> <<>>]

NewTrace ==
    [auth |-> "none", ocr |-> "none", gemini_validation |-> "none",
     validate_called |-> FALSE, validate_arg |-> EmptyDict,
     bill |-> "none", deepface |-> "none", face |-> "none", quality |-> "none", liveness |-> "none",
     raised_in |-> "none", stages |-> {}]

\* the handler, forgetting to set overall_status
ExceptHandlerKeepsStatus(res) ==
    [res EXCEPT !.errors = Append(@, Msg("Processing failed", "exception text"))]

\* except Exception as e: the handler of the one try block around all stages
ExceptHandler(res) ==
    [res EXCEPT !.overall_status = "failed",
                !.errors = Append(@, Msg("Processing failed", "exception text"))]

\* Step 1, when the call returned
AuthenticityStep(res, out) ==
    IF out.kind = "ok"
    THEN [res EXCEPT !.authenticity_check = <<Authenticity(out)>>,
                     !.warnings = IF out.is_ai_generated
                                  THEN Append(@, Msg("Image may be AI-generated.", ""))
                                  ELSE @]
    ELSE [res EXCEPT !.warnings =
              Append(@, Msg("Could not perform image authenticity check.", ""))]

AuthenticityStage ==
    /\ pc = "authenticity"
    /\ \E out \in AuthOutcomes :
          IF out.kind = "raise"
          THEN /\ result' = ExceptHandler(result)
               /\ trace' = [trace EXCEPT !.auth = "raise", !.raised_in = "authenticity",
                                         !.stages = @ \cup {"authenticity"}]
               /\ pc' = "done"
          ELSE /\ result' = AuthenticityStep(result, out)
               /\ trace' = [trace EXCEPT !.auth = out.kind,
                                         !.stages = @ \cup {"authenticity"}]
               /\ pc' = "extraction"
    /\ UNCHANGED <<doc, now, exceptPipeline>>

\* Step 2, recording a failed extraction as a warning
ExtractionStepWarns(res, ocr, gv) ==
    IF ocr.success
    THEN [res EXCEPT !.ocr_result = <<[method |-> "gemini", success |-> TRUE]>>,
                     !.parsed_data = ocr.parsed_data,
                     !.gemini_validation = IF gv = "ok" THEN <<"validation">> ELSE @]
    ELSE [res EXCEPT !.warnings = Append(@, Msg("Gemini OCR failed", ocr.error))]

\* Step 2 with use_gemini: ocr is the answer of extract_structured_data, gv
\* the 'success' of validate_document (asked only after a successful extraction)
ExtractionStep(res, ocr, gv) ==
    IF ocr.success
    THEN [res EXCEPT !.ocr_result = <<[method |-> "gemini", success |-> TRUE]>>,
                     !.parsed_data = ocr.parsed_data,
                     !.gemini_validation = IF gv = "ok" THEN <<"validation">> ELSE @]
    ELSE [res EXCEPT !.errors = Append(@, Msg("Gemini OCR failed", ocr.error))]

ExtractionStage ==
    /\ pc = "extraction"
    /\ IF doc.use_gemini
       THEN \E api \in ApiOutcomes(doc.document_type), gv \in ValidateDocumentOutcomes :
               LET ocr == ExtractStructuredData(api) IN
               /\ result' = ExtractionStep(result, ocr, gv)
               /\ trace' = [trace EXCEPT
                      !.ocr = IF ocr.success THEN "ok" ELSE "fail",
                      !.gemini_validation = IF ocr.success THEN gv ELSE "none",
                      !.stages = @ \cup {"extraction"}]
       ELSE \* the PaddleOCR / regex branch is commented out: nothing is extracted
            /\ result' = result
            /\ trace' = [trace EXCEPT !.stages = @ \cup {"extraction"}]
    /\ pc' = "validation"
    /\ UNCHANGED <<doc, now, exceptPipeline>>

\* Step 3, when validate_document_data returned a report
ValidationStep(res, validation) ==
    [res EXCEPT !.validation = <<validation>>,
                !.errors = IF ~validation.is_valid THEN @ \o validation.errors ELSE @,
                !.warnings = @ \o validation.warnings]

\* Step 3 for a bill, when verify_bill_total returned
BillStep(res, bill) ==
    [res EXCEPT !.bill_verification = <<bill>>,
                !.errors = IF bill.success /\ ~bill.is_total_correct
                           THEN Append(@, Msg("Bill total does not match the sum of line items.", ""))
                           ELSE @]

\* Step 3 when nothing was extracted
NoDataStep(res) ==
    [res EXCEPT !.errors = Append(@, Msg("No data could be extracted from document", ""))]

ValidationStage ==
    /\ pc = "validation"
    /\ IF DOMAIN result.parsed_data # {}
       THEN IF ValidateRaises(result.parsed_data, doc.document_type)
            THEN /\ result' = ExceptHandler(result)
                 /\ trace' = [trace EXCEPT !.validate_called = TRUE,
                                           !.validate_arg = result.parsed_data,
                                           !.raised_in = "validation",
                                           !.stages = @ \cup {"validation"}]
                 /\ pc' = "done"
            ELSE LET validation == ValidateDocumentData(result.parsed_data,
                                                        doc.document_type, now)
                     validated == ValidationStep(result, validation)
                     called == [trace EXCEPT !.validate_called = TRUE,
                                             !.validate_arg = result.parsed_data,
                                             !.stages = @ \cup {"validation"}]
                 IN IF doc.document_type = "bill"
                    THEN \E bill \in BillOutcomes :
                            IF bill.kind = "raise"
                            THEN /\ result' = ExceptHandler(validated)
                                 /\ trace' = [called EXCEPT !.bill = "raise",
                                                            !.raised_in = "validation"]
                                 /\ pc' = "done"
                            ELSE /\ result' = BillStep(validated, bill)
                                 /\ trace' = [called EXCEPT !.bill = "ok"]
                                 /\ pc' = "face"
                    ELSE /\ result' = validated
                         /\ trace' = called
                         /\ pc' = "face"
       ELSE /\ result' = NoDataStep(result)
            /\ trace' = [trace EXCEPT !.stages = @ \cup {"validation"}]
            /\ pc' = "face"
    /\ UNCHANGED <<doc, now, exceptPipeline>>

\* Step 4, dropping a failed detection without a message
FaceStepSilent(res, face_result, quality_ok, liveness_ok) ==
    IF face_result.success
    THEN [res EXCEPT !.face_detection =
              <<[face_count |-> face_result.face_count,
                 quality |-> quality_ok,
                 liveness |-> liveness_ok]>>]
    ELSE res

\* Step 4, given the answers of the face service
FaceStep(res, face_result, quality_ok, liveness_ok) ==
    IF face_result.success
    THEN [res EXCEPT !.face_detection =
              <<[face_count |-> face_result.face_count,
                 quality |-> quality_ok,
                 liveness |-> liveness_ok]>>]
    ELSE [res EXCEPT !.warnings = Append(@, Msg("Face detection failed", face_result.error))]

FaceStage ==
    /\ pc = "face"
    /\ IF doc.detect_face /\ doc.document_type # "bill"
       THEN \E lib \in DeepFaceOutcomes, q \in FaceQualityOutcomes, l \in LivenessOutcomes :
               LET face_result == DetectFaces(lib) IN
               /\ result' = FaceStep(result, face_result, q, l)
               /\ trace' = [trace EXCEPT
                      !.deepface = lib,
                      !.face = IF face_result.success THEN "ok" ELSE "fail",
                      !.quality = IF ~face_result.success THEN "none"
                                  ELSE IF q THEN "ok" ELSE "fail",
                      !.liveness = IF ~face_result.success THEN "none"
                                   ELSE IF l THEN "ok" ELSE "fail",
                      !.stages = @ \cup {"face"}]
       ELSE /\ result' = result
            /\ trace' = [trace EXCEPT !.stages = @ \cup {"face"}]
    /\ pc' = "finalize"
    /\ UNCHANGED <<doc, now, exceptPipeline>>

\* Step 5, testing the warnings before the errors
OverallStatusWarningsFirst(errors, warnings) ==
    IF warnings # <<>> THEN "completed_with_warnings"
    ELSE IF errors # <<>> THEN "completed_with_errors"
    ELSE "completed"

\* Step 5
OverallStatus(errors, warnings) ==
    IF errors # <<>> THEN "completed_with_errors"
    ELSE IF warnings # <<>> THEN "completed_with_warnings"
    ELSE "completed"

Finalize ==
    /\ pc = "finalize"
    /\ result' = [result EXCEPT !.overall_status = OverallStatus(result.errors, result.warnings)]
    /\ trace' = [trace EXCEPT !.stages = @ \cup {"finalize"}]
    /\ pc' = "done"
    /\ UNCHANGED <<doc, now, exceptPipeline>>

-----------------------------------------------------------------------------
(* A call of _validate_and_clean_data on its own *)

MaxPad == 1

PadChars == {" ", "\t"}

Pads == UNION {[1..k -> PadChars] : k \in 0..MaxPad}

Cores ==
    {<<>>, NullMarker, <<"N", "U", "L", "L">>, <<"N", "u", "l", "l">>, <<"n", "u", "l">>,
     <<"x">>, <<"a", " ", "b">>, <<"0">>}

CleanStrings == {l \o c \o r : l \in Pads, c \in Cores, r \in Pads}

CleanValues ==
    {None, IntVal(0), IntVal(1), BoolVal(FALSE), BoolVal(TRUE), ListVal(0), ListVal(1)}
        \cup {StrVal(s) : s \in CleanStrings}

OtherValues == {None, IntVal(0), StrVal(<<"x">>)}

CleanInputs ==
    LET first == {EmptyDict} \cup {Extend(EmptyDict, "k1", v) : v \in CleanValues}
    IN first \cup {Extend(m, "k2", v) : m \in first, v \in OtherValues}

CleanCall ==
    /\ cleanPc = "call"
    /\ cleanOut' = ValidateAndCleanData(cleanIn)
    /\ cleanPc' = "returned"
    /\ UNCHANGED <<cleanIn, exceptClean>>

-----------------------------------------------------------------------------
(* A caller that validates one FieldMap twice with validate_document_data *)

\* what a call did: raised (no report), or returned the report
ValidateOutcome(data, document_type, t) ==
    IF ValidateRaises(data, document_type)
    THEN [raised |-> TRUE, report |-> <<>>]
    ELSE [raised |-> FALSE, report |-> <<ValidateDocumentData(data, document_type, t)>>]

NotCalled == [raised |-> FALSE, report |-> <<>>]

S_AadhaarCompact == <<"1", "2", "3", "4", "5", "6", "7", "8", "9", "0", "1", "2">>
S_AadhaarTabbed == <<"1", "2", "3", "4", "\t", "5", "6", "7", "8", "\t", "9", "0", "1", "2">>
S_DobToday == <<"0", "6", "/", "1", "1", "/", "2", "0", "2", "6">>
S_DobTomorrow == <<"0", "7", "/", "1", "1", "/", "2", "0", "2", "6">>
S_DobThirtyYears == <<"0", "6", "-", "1", "1", "-", "9", "6">>
S_DobNoSuchDay == <<"3", "1", "/", "0", "2", "/", "2", "0", "0", "0">>

\* the values a FieldMap (field name -> string | null) can hold under a key
ValFieldChoices(field) ==
    CASE field = "name" -> {None, StrVal(<<>>), StrVal(S_Name)}
      [] field = "father_name" -> {None, StrVal(S_Name)}
      [] field = "pan_number" -> {None, StrVal(<<>>), StrVal(S_Pan), StrVal(S_BadPan)}
      [] field = "aadhaar_number" ->
             {None, StrVal(<<>>), StrVal(S_Aadhaar), StrVal(S_AadhaarCompact),
              StrVal(S_AadhaarTabbed), StrVal(S_BadAadhaar)}
      [] field = "passport_number" ->
             {None, StrVal(<<>>), StrVal(S_Passport), StrVal(S_BadPassport)}
      [] field = "license_number" -> {StrVal(<<>>), StrVal(S_License)}
      [] field = "voter_id" -> {None, StrVal(S_Voter)}
      [] field = "dob" ->
             {None, StrVal(<<>>), StrVal(S_Dob), StrVal(S_DobShort), StrVal(S_DobThirtyYears),
              StrVal(S_DobToday), StrVal(S_DobTomorrow), StrVal(S_BadDob),
              StrVal(S_DobNoSuchDay)}
      [] OTHER -> {StrVal(S_Total)}

RECURSIVE ValMapsOver(_)
ValMapsOver(fields) ==
    IF fields = {} THEN {EmptyDict}
    ELSE LET f == CHOOSE f \in fields : TRUE
             rest == ValMapsOver(fields \ {f})
         IN rest \cup {Extend(m, f, v) : m \in rest, v \in ValFieldChoices(f)}

\* the FieldMaps validated for a document type: any subset of its keys
ValInputs(document_type) == ValMapsOver(AnswerFields(document_type))

\* the FieldMaps of the call made in between
ValOtherInputs ==
    {EmptyDict, [name |-> StrVal(S_Name), dob |-> StrVal(S_DobTomorrow)],
     [aadhaar_number |-> None]}

\* the clock of the caller: three consecutive days
ValNowDates == {<<2026, 11, 6>>, <<2026, 11, 7>>, <<2026, 11, 8>>}

FirstValidate ==
    /\ valPc = "first"
    /\ valFirst' = ValidateOutcome(valData, valType, valNow)
    /\ valFirstNow' = valNow
    /\ valPc' = "between"
    /\ UNCHANGED <<valData, valType, valNow, valOther, valSecond, exceptVal>>

\* time passes between the two calls
ClockAdvance ==
    /\ valPc = "between"
    /\ \E t \in ValNowDates : DateAfterNow(t, valNow) /\ valNow' = t
    /\ UNCHANGED <<valPc, valData, valType, valFirstNow, valFirst, valOther, valSecond,
                   exceptVal>>

\* the same parser validates another FieldMap between the two calls
OtherValidate ==
    /\ valPc = "between"
    /\ valOther = NotCalled
    /\ \E data \in ValOtherInputs :
          /\ ValidateOutcome(data, "aadhaar", valNow) # NotCalled
          /\ valOther' = ValidateOutcome(data, "aadhaar", valNow)
    /\ UNCHANGED <<valPc, valData, valType, valNow, valFirstNow, valFirst, valSecond,
                   exceptVal>>

SecondValidate ==
    /\ valPc = "between"
    /\ valSecond' = ValidateOutcome(valData, valType, valNow)
    /\ valPc' = "done"
    /\ UNCHANGED <<valData, valType, valNow, valFirstNow, valFirst, valOther, exceptVal>>

-----------------------------------------------------------------------------
(* Regex extraction of an Aadhaar text followed by validation of the result *)

\* what can stand between two groups of digits: nothing or one \s character
Separators == {<<>>, <<" ">>, <<"\t">>, <<"\n">>}

\* the last group of digits: four, or one less or more (then \b does not fit)
LastGroups == {<<"9", "0", "1", "2">>, <<"9", "0", "1">>, <<"9", "0", "1", "2", "3">>}

\* raw texts of digits and whitespace around a run of digit groups
AadhaarTexts ==
    {l \o <<"1", "2", "3", "4">> \o s1 \o <<"5", "6", "7", "8">> \o s2 \o g \o r :
        l \in Pads, s1 \in Separators, s2 \in Separators, g \in LastGroups, r \in Pads}

Extract ==
    /\ rtPc = "extract"
    /\ rtParsed' = ParseDocument(rtText, "aadhaar")
    /\ rtPc' = "validate"
    /\ UNCHANGED <<rtText, rtReport, exceptRt>>

Revalidate ==
    /\ rtPc = "validate"
    /\ rtReport' = ValidateOutcome(rtParsed, "aadhaar", <<2026, 11, 6>>)
    /\ rtPc' = "done"
    /\ UNCHANGED <<rtText, rtParsed, exceptRt>>

-----------------------------------------------------------------------------
(* OfflineAIDetector.detect.  What an analyzer measures in the image is its  *)
(* argument: the branch taken, or the measured figure as a scaled integer    *)
(* (ratio in thousandths, entropies in hundredths, deviations and variances  *)
(* in tenths), with values on both sides of every threshold.                 *)

Min(a, b) == IF a < b THEN a ELSE b

\* what image._getexif() gives: None ("none"), a dict ("data": does a string
\* value hold an AI keyword, is Make or Model present), one of AttributeError,
\* KeyError, TypeError ("caught"), or another exception ("raise")
ExifOutcomes ==
    {[kind |-> "none", ai_software |-> FALSE, has_camera |-> FALSE],
     [kind |-> "caught", ai_software |-> FALSE, has_camera |-> FALSE],
     [kind |-> "raise", ai_software |-> FALSE, has_camera |-> FALSE]}
        \cup {[kind |-> "data", ai_software |-> a, has_camera |-> c] :
                 a \in BOOLEAN, c \in BOOLEAN}

\* _check_exif_metadata, returning the score without the final min(score, 25)
CheckExifMetadataUncapped(e) ==
    CASE e.kind = "none" -> 15
      [] e.kind = "data" ->
             (IF e.ai_software THEN 25 ELSE 0) + (IF e.has_camera THEN 0 ELSE 10)
      [] OTHER -> 10

\* _check_exif_metadata, when it returns
CheckExifMetadata(e) ==
    Min(CASE e.kind = "none" -> 15
          [] e.kind = "data" ->
                 (IF e.ai_software THEN 25 ELSE 0) + (IF e.has_camera THEN 0 ELSE 10)
          [] OTHER -> 10,
        25)

\* cv2.imread gave None ("unreadable"), an exception was raised before the
\* ratio was tested ("raise"), or freq_ratio was computed ("ratio")
FrequencyOutcomes ==
    {[kind |-> "unreadable", ratio |-> 0], [kind |-> "raise", ratio |-> 0]}
        \cup {[kind |-> "ratio", ratio |-> r] : r \in {0, 9, 10, 49, 50}}

\* _analyze_frequency_domain
AnalyzeFrequencyDomain(f) ==
    IF f.kind # "ratio" THEN 0
    ELSE Min(IF f.ratio < 10 THEN 20 ELSE IF f.ratio < 50 THEN 10 ELSE 0, 20)

\* an exception before the entropies were tested ("raise"), or avg_entropy
\* and std_entropy were computed
HistogramOutcomes ==
    {[kind |-> "raise", avg |-> 0, std |-> 0]}
        \cup {[kind |-> "entropy", avg |-> a, std |-> s] :
                 a \in {700, 701, 750, 751}, s \in {9, 10}}

\* _analyze_histogram
AnalyzeHistogram(h) ==
    IF h.kind # "entropy" THEN 0
    ELSE Min((IF h.avg > 750 THEN 15 ELSE IF h.avg > 700 THEN 8 ELSE 0)
                 + (IF h.std < 10 THEN 5 ELSE 0),
             15)

NoiseOutcomes ==
    {[kind |-> "unreadable", std |-> 0, variation |-> 0],
     [kind |-> "raise", std |-> 0, variation |-> 0]}
        \cup {[kind |-> "noise", std |-> s, variation |-> v] :
                 s \in {19, 20, 200, 201}, v \in {4, 5}}

\* _analyze_noise_patterns
AnalyzeNoisePatterns(n) ==
    IF n.kind # "noise" THEN 0
    ELSE Min((IF n.std < 20 THEN 15 ELSE IF n.std > 200 THEN 10 ELSE 0)
                 + (IF n.variation < 5 THEN 10 ELSE 0),
             25)

\* image.format, then: np.array(image) raised ("raise"), the image is smaller
\* than 16 x 16 ("small"), or avg_block_var was computed ("blocks")
ArtifactOutcomes ==
    {[format |-> f, kind |-> k, block_var |-> 0] :
        f \in {"PNG", "JPEG", "WEBP"}, k \in {"raise", "small"}}
        \cup {[format |-> f, kind |-> "blocks", block_var |-> v] :
                 f \in {"PNG", "JPEG", "WEBP"}, v \in {49, 50, 149, 150}}

\* _check_jpeg_artifacts: the format is scored before the pixels are read
CheckJpegArtifacts(a) ==
    Min((IF a.format = "PNG" THEN 10 ELSE IF a.format # "JPEG" THEN 5 ELSE 0)
            + (IF a.kind # "blocks" THEN 0
               ELSE IF a.block_var < 50 THEN 15
               ELSE IF a.block_var < 150 THEN 8 ELSE 0),
        20)

\* the findings list of _generate_explanation
Findings(exif, freq, hist, noise, artifact) ==
    (IF exif >= 15 THEN <<"missing or suspicious EXIF metadata">> ELSE <<>>)
    \o (IF freq >= 10 THEN <<"unusual frequency domain patterns">> ELSE <<>>)
    \o (IF hist >= 10 THEN <<"unnatural color distribution">> ELSE <<>>)
    \o (IF noise >= 15 THEN <<"artificial noise characteristics">> ELSE <<>>)
    \o (IF artifact >= 15 THEN <<"lack of natural JPEG compression artifacts">> ELSE <<>>)

\* the confidence word and the verdict sentence of a total score
ConfidenceOf(total) ==
    IF total >= 60 THEN "High" ELSE IF total >= 40 THEN "Medium"
    ELSE IF total >= 20 THEN "Low" ELSE "Very Low"

VerdictOf(total) ==
    IF total >= 60 THEN "strongly shows characteristics of AI generation"
    ELSE IF total >= 40 THEN "shows multiple indicators of possible AI generation"
    ELSE IF total >= 20 THEN "shows some suspicious characteristics"
    ELSE "appears to be authentic with natural characteristics"

\* _generate_explanation naming the confidence also when there are no findings
GenerateExplanationAlwaysLabelled(exif, freq, hist, noise, artifact, total) ==
    [verdict |-> VerdictOf(total), confidence |-> <<ConfidenceOf(total)>>,
     details |-> Findings(exif, freq, hist, noise, artifact)]

\* _generate_explanation: the parts of the sentence it builds
GenerateExplanation(exif, freq, hist, noise, artifact, total) ==
    LET findings == Findings(exif, freq, hist, noise, artifact) IN
    IF findings # <<>>
    THEN [verdict |-> VerdictOf(total), confidence |-> <<ConfidenceOf(total)>>,
          details |-> findings]
    ELSE [verdict |-> VerdictOf(total), confidence |-> <<>>, details |-> <<>>]

NoScores == [exif |-> 0, frequency |-> 0, histogram |-> 0, noise |-> 0, artifacts |-> 0]

\* the except branch of detect
DetectFailed == [success |-> FALSE, authenticity |-> <<>>]

\* the dict detect returns once the five analyzers have returned; for every
\* total the analyzers can produce, int((total_score / 120) * 100) in floating
\* point is the integer quotient of total_score * 100 by 120
DetectVerdict(s) ==
    LET total_score == s.exif + s.frequency + s.histogram + s.noise + s.artifacts IN
    [success |-> TRUE,
     authenticity |->
         <<[is_ai_generated |-> total_score >= 40,
            confidence_score |-> Min(100, (total_score * 100) \div 120),
            explanation |-> GenerateExplanation(s.exif, s.frequency, s.histogram, s.noise,
                                                s.artifacts, total_score),
            detection_method |-> "offline_heuristic",
            scores |-> [exif |-> s.exif, frequency |-> s.frequency,
                        histogram |-> s.histogram, noise |-> s.noise,
                        artifacts |-> s.artifacts, total |-> total_score]]>>]

\* Image.open(image_path): the image opens, or the call raises
OpenImage ==
    /\ detPc = "open"
    /\ \E opened \in BOOLEAN :
          IF opened
          THEN detPc' = "exif" /\ detReturn' = detReturn
          ELSE detPc' = "done" /\ detReturn' = <<DetectFailed>>
    /\ UNCHANGED <<detScores, detFailed, exceptDet>>

ExifStep ==
    /\ detPc = "exif"
    /\ \E e \in ExifOutcomes :
          IF e.kind = "raise"
          THEN /\ detPc' = "done"
               /\ detReturn' = <<DetectFailed>>
               /\ detFailed' = detFailed \cup {"exif"}
               /\ detScores' = detScores
          ELSE /\ detPc' = "frequency"
               /\ detScores' = [detScores EXCEPT !.exif = CheckExifMetadata(e)]
               /\ detFailed' = IF e.kind = "caught" THEN detFailed \cup {"exif"} ELSE detFailed
               /\ detReturn' = detReturn
    /\ UNCHANGED exceptDet

FrequencyStep ==
    /\ detPc = "frequency"
    /\ \E f \in FrequencyOutcomes :
          /\ detScores' = [detScores EXCEPT !.frequency = AnalyzeFrequencyDomain(f)]
          /\ detFailed' = IF f.kind = "raise" THEN detFailed \cup {"frequency"} ELSE detFailed
    /\ detPc' = "histogram"
    /\ UNCHANGED <<detReturn, exceptDet>>

HistogramStep ==
    /\ detPc = "histogram"
    /\ \E h \in HistogramOutcomes :
          /\ detScores' = [detScores EXCEPT !.histogram = AnalyzeHistogram(h)]
          /\ detFailed' = IF h.kind = "raise" THEN detFailed \cup {"histogram"} ELSE detFailed
    /\ detPc' = "noise"
    /\ UNCHANGED <<detReturn, exceptDet>>

NoiseStep ==
    /\ detPc = "noise"
    /\ \E n \in NoiseOutcomes :
          /\ detScores' = [detScores EXCEPT !.noise = AnalyzeNoisePatterns(n)]
          /\ detFailed' = IF n.kind = "raise" THEN detFailed \cup {"noise"} ELSE detFailed
    /\ detPc' = "artifacts"
    /\ UNCHANGED <<detReturn, exceptDet>>

ArtifactStep ==
    /\ detPc = "artifacts"
    /\ \E a \in ArtifactOutcomes :
          /\ detScores' = [detScores EXCEPT !.artifacts = CheckJpegArtifacts(a)]
          /\ detFailed' = IF a.kind = "raise" THEN detFailed \cup {"artifacts"} ELSE detFailed
    /\ detPc' = "verdict"
    /\ UNCHANGED <<detReturn, exceptDet>>

VerdictStep ==
    /\ detPc = "verdict"
    /\ detReturn' = <<DetectVerdict(detScores)>>
    /\ detPc' = "done"
    /\ UNCHANGED <<detScores, detFailed, exceptDet>>

-----------------------------------------------------------------------------
(* api/routes.py: the upload store, the job tracker, the result store, the   *)
(* request handlers and the background task.  A handler runs as one step (it *)
(* is a coroutine without await points); process_document_background is a    *)
(* plain function, run in a worker thread, so each of its writes is a step   *)
(* that interleaves with handlers and with other background tasks.           *)

MaxDocs == 1

MaxJobs == 2

\* str(uuid.uuid4()) for documents and for jobs: never handed out twice
DocIds == 1..MaxDocs

JobIds == 1..MaxJobs

NoStore == [k \in {} |-> 0]

\* the job record created with status 'processing'
NewJobAlreadyProcessing(document_id) ==
    [document_id |-> document_id, status |-> "processing", progress |-> 0,
     message |-> "Job created, starting processing", completed_at |-> FALSE]

\* the job record process_document creates
NewJob(document_id) ==
    [document_id |-> document_id, status |-> "pending", progress |-> 0,
     message |-> "Job created, starting processing", completed_at |-> FALSE]

\* the arguments of a scheduled background task and its position
NewTask(document_id) ==
    [pc |-> "start", document_id |-> document_id, result |-> "none"]

\* what process_document can return as overall_status
PipelineStatuses ==
    {"completed", "completed_with_warnings", "completed_with_errors", "failed"}

\* upload_document: a new document id enters the upload store
UploadDocument ==
    /\ nextDoc \in DocIds
    /\ uploaded_files' = uploaded_files \cup {nextDoc}
    /\ nextDoc' = nextDoc + 1
    /\ UNCHANGED <<processing_jobs, processing_results, bgTasks, response, exceptJobs>>

\* process_document (the route) for an uploaded document: the job is created
\* PENDING and the background task is scheduled
ProcessRequest ==
    /\ Cardinality(DOMAIN processing_jobs) < MaxJobs
    /\ \E d \in uploaded_files :
          LET job_id == Cardinality(DOMAIN processing_jobs) + 1 IN
          /\ processing_jobs' = Extend(processing_jobs, job_id, NewJob(d))
          /\ bgTasks' = Extend(bgTasks, job_id, NewTask(d))
          /\ response' = [op |-> "process", code |-> 200, id |-> d, status |-> "pending"]
    /\ UNCHANGED <<uploaded_files, nextDoc, processing_results, exceptJobs>>

\* the ids a request can name that are not in the upload store: those of
\* deleted documents, and 0 for a string that was never a document id (an id
\* that upload_document will hand out later cannot be named: it is a new uuid)
UnknownIds == (0..(nextDoc - 1)) \ uploaded_files

\* process_document (the route) for a document id that is not in the upload
\* store: 404, no job
ProcessUnknown ==
    /\ \E d \in UnknownIds :
          response' = [op |-> "process", code |-> 404, id |-> d, status |-> "none"]
    /\ UNCHANGED <<uploaded_files, nextDoc, processing_jobs, processing_results, bgTasks,
                   exceptJobs>>

\* get_job_status
PollStatus ==
    /\ \E j \in JobIds :
          response' = IF j \in DOMAIN processing_jobs
                      THEN [op |-> "status", code |-> 200, id |-> 0,
                            status |-> processing_jobs[j].status]
                      ELSE [op |-> "status", code |-> 404, id |-> 0, status |-> "none"]
    /\ UNCHANGED <<uploaded_files, nextDoc, processing_jobs, processing_results, bgTasks,
                   exceptJobs>>

\* delete_document: the file, the upload entry and the stored result go; the
\* jobs of the document stay
DeleteDocument ==
    /\ \E d \in uploaded_files :
          /\ uploaded_files' = uploaded_files \ {d}
          /\ processing_results' =
                 [k \in DOMAIN processing_results \ {d} |-> processing_results[k]]
    /\ UNCHANGED <<nextDoc, processing_jobs, bgTasks, response, exceptJobs>>

\* the task of job j is at position p
At(j, p) == j \in DOMAIN bgTasks /\ bgTasks[j].pc = p

\* processing_jobs[job_id]['status'] = ProcessingStatus.PROCESSING
BgStart(j) ==
    /\ At(j, "start")
    /\ processing_jobs' = [processing_jobs EXCEPT ![j].status = "processing"]
    /\ bgTasks' = [bgTasks EXCEPT ![j].pc = "progress25"]
    /\ UNCHANGED <<uploaded_files, nextDoc, processing_results, response, exceptJobs>>

\* processing_jobs[job_id]['progress'] = 25
BgProgress25(j) ==
    /\ At(j, "progress25")
    /\ processing_jobs' = [processing_jobs EXCEPT ![j].progress = 25]
    /\ bgTasks' = [bgTasks EXCEPT ![j].pc = "lookup"]
    /\ UNCHANGED <<uploaded_files, nextDoc, processing_results, response, exceptJobs>>

\* file_info = uploaded_files.get(document_id); a missing document fails the job
BgLookup(j) ==
    /\ At(j, "lookup")
    /\ IF bgTasks[j].document_id \in uploaded_files
       THEN /\ bgTasks' = [bgTasks EXCEPT ![j].pc = "run"]
            /\ processing_jobs' = processing_jobs
       ELSE /\ bgTasks' = [bgTasks EXCEPT ![j].pc = "end"]
            /\ processing_jobs' = [processing_jobs EXCEPT ![j].status = "failed",
                                                          ![j].message = "Document not found"]
    /\ UNCHANGED <<uploaded_files, nextDoc, processing_results, response, exceptJobs>>

\* get_document_processor() raises (the services cannot be constructed), or
\* process_document returns its result; process_document itself never raises
BgRun(j) ==
    /\ At(j, "run")
    /\ \/ bgTasks' = [bgTasks EXCEPT ![j].pc = "except"]
       \/ \E s \in PipelineStatuses :
             bgTasks' = [bgTasks EXCEPT ![j].pc = "progress100", ![j].result = s]
    /\ UNCHANGED <<uploaded_files, nextDoc, processing_jobs, processing_results, response,
                   exceptJobs>>

\* processing_jobs[job_id]['progress'] = 100
BgProgress100(j) ==
    /\ At(j, "progress100")
    /\ processing_jobs' = [processing_jobs EXCEPT ![j].progress = 100]
    /\ bgTasks' = [bgTasks EXCEPT ![j].pc = "completed"]
    /\ UNCHANGED <<uploaded_files, nextDoc, processing_results, response, exceptJobs>>

\* processing_jobs[job_id]['status'] = ProcessingStatus.COMPLETED, then
\* completed_at and message
BgCompleted(j) ==
    /\ At(j, "completed")
    /\ processing_jobs' = [processing_jobs EXCEPT
                               ![j].status = "completed",
                               ![j].completed_at = TRUE,
                               ![j].message = "Processing completed successfully"]
    /\ bgTasks' = [bgTasks EXCEPT ![j].pc = "store"]
    /\ UNCHANGED <<uploaded_files, nextDoc, processing_results, response, exceptJobs>>

\* the result stored in one slot shared by all documents
BgStoreSingleSlot(j) ==
    /\ At(j, "store")
    /\ processing_results' =
           Extend(processing_results, 1,
                  [overall_status |-> bgTasks[j].result])
    /\ bgTasks' = [bgTasks EXCEPT ![j].pc = "end"]
    /\ UNCHANGED <<uploaded_files, nextDoc, processing_jobs, response, exceptJobs>>

\* processing_results[document_id] = result
BgStore(j) ==
    /\ At(j, "store")
    /\ processing_results' =
           Extend(processing_results, bgTasks[j].document_id,
                  [overall_status |-> bgTasks[j].result])
    /\ bgTasks' = [bgTasks EXCEPT ![j].pc = "end"]
    /\ UNCHANGED <<uploaded_files, nextDoc, processing_jobs, response, exceptJobs>>

\* an except handler that writes the message but not the status
BgExceptKeepsStatus(j) ==
    /\ At(j, "except")
    /\ processing_jobs' = [processing_jobs EXCEPT ![j].message = "Processing failed"]
    /\ bgTasks' = [bgTasks EXCEPT ![j].pc = "except_progress"]
    /\ UNCHANGED <<uploaded_files, nextDoc, processing_results, response, exceptJobs>>

\* except Exception: status FAILED and the message
BgExcept(j) ==
    /\ At(j, "except")
    /\ processing_jobs' = [processing_jobs EXCEPT ![j].status = "failed",
                                                  ![j].message = "Processing failed"]
    /\ bgTasks' = [bgTasks EXCEPT ![j].pc = "except_progress"]
    /\ UNCHANGED <<uploaded_files, nextDoc, processing_results, response, exceptJobs>>

\* except Exception: processing_jobs[job_id]['progress'] = 0
BgExceptProgress(j) ==
    /\ At(j, "except_progress")
    /\ processing_jobs' = [processing_jobs EXCEPT ![j].progress = 0]
    /\ bgTasks' = [bgTasks EXCEPT ![j].pc = "end"]
    /\ UNCHANGED <<uploaded_files, nextDoc, processing_results, response, exceptJobs>>

-----------------------------------------------------------------------------
(* Specifications *)

Calls ==
    [document_type : DocumentTypes, use_gemini : BOOLEAN, detect_face : BOOLEAN,
     raw_text : RawTexts]

\* no process_document run
IdlePipeline ==
    /\ pc = "idle"
    /\ doc = [document_type |-> "aadhaar", use_gemini |-> TRUE, detect_face |-> TRUE,
              raw_text |-> <<>>]
    /\ now = <<2026, 11, 6>>
    /\ result = NewResult("aadhaar")
    /\ trace = NewTrace

\* no call of _validate_and_clean_data
IdleClean ==
    /\ cleanPc = "idle"
    /\ cleanIn = EmptyDict
    /\ cleanOut = EmptyDict

\* no caller of validate_document_data
IdleVal ==
    /\ valPc = "idle"
    /\ valData = EmptyDict
    /\ valType = "aadhaar"
    /\ valNow = <<2026, 11, 6>>
    /\ valFirstNow = <<2026, 11, 6>>
    /\ valFirst = NotCalled
    /\ valOther = NotCalled
    /\ valSecond = NotCalled

\* no round trip
IdleRt ==
    /\ rtPc = "idle"
    /\ rtText = <<>>
    /\ rtParsed = EmptyDict
    /\ rtReport = NotCalled

\* no call of detect
IdleDet ==
    /\ detPc = "idle"
    /\ detScores = NoScores
    /\ detFailed = {}
    /\ detReturn = <<>>

\* the stores as created when routes.py is imported
EmptyStores ==
    /\ uploaded_files = {}
    /\ nextDoc = 1
    /\ processing_jobs = NoStore
    /\ processing_results = NoStore
    /\ bgTasks = NoStore
    /\ response = [op |-> "none", code |-> 0, id |-> 0, status |-> "none"]

Init ==
    /\ doc \in Calls
    /\ now \in NowDates
    /\ pc = "authenticity"
    /\ result = NewResult(doc.document_type)
    /\ trace = NewTrace
    /\ IdleClean
    /\ IdleVal
    /\ IdleRt
    /\ IdleDet
    /\ EmptyStores

Next ==
    \/ AuthenticityStage
    \/ ExtractionStage
    \/ ValidationStage
    \/ FaceStage
    \/ Finalize

Spec == Init /\ [][Next]_vars

InitClean ==
    /\ cleanPc = "call"
    /\ cleanIn \in CleanInputs
    /\ cleanOut = EmptyDict
    /\ IdlePipeline
    /\ IdleVal
    /\ IdleRt
    /\ IdleDet
    /\ EmptyStores

NextClean == CleanCall

SpecClean == InitClean /\ [][NextClean]_vars

InitValidate ==
    /\ valPc = "first"
    /\ valType \in DocumentTypes
    /\ valData \in ValInputs(valType)
    /\ valNow \in ValNowDates
    /\ valFirstNow = valNow
    /\ valFirst = NotCalled
    /\ valOther = NotCalled
    /\ valSecond = NotCalled
    /\ IdlePipeline
    /\ IdleClean
    /\ IdleRt
    /\ IdleDet
    /\ EmptyStores

NextValidate ==
    \/ FirstValidate
    \/ ClockAdvance
    \/ OtherValidate
    \/ SecondValidate

SpecValidate == InitValidate /\ [][NextValidate]_vars

InitRoundTrip ==
    /\ rtPc = "extract"
    /\ rtText \in AadhaarTexts
    /\ rtParsed = EmptyDict
    /\ rtReport = NotCalled
    /\ IdlePipeline
    /\ IdleClean
    /\ IdleVal
    /\ IdleDet
    /\ EmptyStores

NextRoundTrip == Extract \/ Revalidate

SpecRoundTrip == InitRoundTrip /\ [][NextRoundTrip]_vars

InitDetect ==
    /\ detPc = "open"
    /\ detScores = NoScores
    /\ detFailed = {}
    /\ detReturn = <<>>
    /\ IdlePipeline
    /\ IdleClean
    /\ IdleVal
    /\ IdleRt
    /\ EmptyStores

NextDetect ==
    \/ OpenImage
    \/ ExifStep
    \/ FrequencyStep
    \/ HistogramStep
    \/ NoiseStep
    \/ ArtifactStep
    \/ VerdictStep

SpecDetect == InitDetect /\ [][NextDetect]_vars

InitJobs ==
    /\ EmptyStores
    /\ IdlePipeline
    /\ IdleClean
    /\ IdleVal
    /\ IdleRt
    /\ IdleDet

\* one step of the background task of job j
BackgroundStep(j) ==
    \/ BgStart(j)
    \/ BgProgress25(j)
    \/ BgLookup(j)
    \/ BgRun(j)
    \/ BgProgress100(j)
    \/ BgCompleted(j)
    \/ BgStore(j)
    \/ BgExcept(j)
    \/ BgExceptProgress(j)

NextJobs ==
    \/ UploadDocument
    \/ ProcessRequest
    \/ ProcessUnknown
    \/ PollStatus
    \/ DeleteDocument
    \/ \E j \in JobIds : BackgroundStep(j)

SpecJobs == InitJobs /\ [][NextJobs]_vars

\* the number of background runs that interleave, each for its own document
MaxRuns == 2

RunIds == 1..MaxRuns

\* MaxRuns documents have been uploaded and a process request has been made
\* for each: job j, for document j, is PENDING and its task is scheduled
InitRuns ==
    /\ uploaded_files = RunIds
    /\ nextDoc = MaxRuns + 1
    /\ processing_jobs = [j \in RunIds |-> NewJob(j)]
    /\ processing_results = NoStore
    /\ bgTasks = [j \in RunIds |-> NewTask(j)]
    /\ response = [op |-> "process", code |-> 200, id |-> MaxRuns, status |-> "pending"]
    /\ IdlePipeline
    /\ IdleClean
    /\ IdleVal
    /\ IdleRt
    /\ IdleDet

NextRuns ==
    \/ \E j \in RunIds : BackgroundStep(j)
    \/ DeleteDocument

SpecRuns == InitRuns /\ [][NextRuns]_vars

\* a scheduled background task is run by the worker thread pool, and every
\* statement of it returns: the task of each job keeps taking steps
SpecRunsFair ==
    /\ InitRuns
    /\ [][NextRuns]_vars
    /\ \A j \in RunIds : WF_vars(BackgroundStep(j))

-----------------------------------------------------------------------------
(* Properties *)

\* the list holds a message of this kind
Has(list, kind) == \E i \in 1..Len(list) : list[i][1] = kind

Returned == pc = "done"

TerminalStatuses ==
    {"completed", "completed_with_warnings", "completed_with_errors", "failed"}

\* a value validation should never see: null, empty or whitespace-only, or
\* the word null in any case with whitespace around it
IsPlaceholder(v) ==
    \/ v.t = "none"
    \/ v.t = "str" /\ (Strip(v.s) = <<>> \/ Lower(Strip(v.s)) = NullMarker)

\* C1: when a run returns without the except handler having run,
\* overall_status is decided by (errors, warnings) alone: errors non-empty
\* gives completed_with_errors, else warnings non-empty gives
\* completed_with_warnings, else completed.
C1_StatusDecisionTable ==
    (Returned /\ trace.raised_in = "none") =>
        /\ result.errors # <<>> => result.overall_status = "completed_with_errors"
        /\ (result.errors = <<>> /\ result.warnings # <<>>)
               => result.overall_status = "completed_with_warnings"
        /\ (result.errors = <<>> /\ result.warnings = <<>>)
               => result.overall_status = "completed"

\* a run that returned with both errors and warnings recorded
C1_Witness ==
    /\ Returned /\ trace.raised_in = "none"
    /\ result.errors # <<>> /\ result.warnings # <<>>
    /\ result.overall_status = "completed_with_errors"

\* C2 (as claimed): when a call inside a stage raises, the run does not end
\* 'failed' and every later stage still executes.
C2_StagesIsolated ==
    (Returned /\ trace.raised_in # "none") =>
        /\ Has(result.errors, "Processing failed")
        /\ result.overall_status # "failed"
        /\ {"authenticity", "extraction", "validation", "face", "finalize"} \subseteq trace.stages

\* C3: when face detection fails (DeepFace raised or found no face) and no
\* error was recorded, the run ends completed or completed_with_warnings and
\* warnings holds a face-detection-failure message.
C3_FaceFailureIsWarning ==
    (Returned /\ trace.face = "fail" /\ result.errors = <<>>) =>
        /\ result.overall_status \in {"completed", "completed_with_warnings"}
        /\ Has(result.warnings, "Face detection failed")

\* a run where DeepFace raised inside detect_faces and nothing else went wrong
C3_Witness ==
    /\ Returned /\ trace.deepface = "raise" /\ trace.face = "fail"
    /\ result.errors = <<>>
    /\ result.overall_status = "completed_with_warnings"

\* the position of a stage in the body of process_document
StageRank(p) ==
    CASE p = "authenticity" -> 1
      [] p = "extraction" -> 2
      [] p = "validation" -> 3
      [] p = "face" -> 4
      [] p = "finalize" -> 5
      [] OTHER -> 6

\* C4 (amended): every step of a run moves to the next stage or returns, so
\* no stage is repeated and no exception leaves the call; the returned status is
\* one of the four final ones, and a failed authenticity check, a failed
\* extraction, a failed face detection and a raised exception each leave
\* their message in errors or warnings.
C4_ReturnsResult ==
    /\ [][StageRank(pc') = StageRank(pc) + 1 \/ pc' = "done"]_pc
    /\ [](Returned =>
            /\ result.overall_status \in TerminalStatuses
            /\ trace.auth = "fail"
                   => Has(result.warnings, "Could not perform image authenticity check.")
            /\ trace.ocr = "fail" => Has(result.errors, "Gemini OCR failed")
            /\ trace.face = "fail" => Has(result.warnings, "Face detection failed")
            /\ trace.raised_in # "none" => Has(result.errors, "Processing failed"))

\* a run in which validate_document_data raised, and which still returned
C4_Witness ==
    /\ Returned /\ trace.raised_in = "validation"
    /\ result.overall_status = "failed"
    /\ Has(result.errors, "Processing failed")

\* C4 (as claimed): every collaborator failure, also of the Gemini
\* validation, face quality and liveness calls, leaves something in errors
\* or warnings.
C4_EveryFailureCaptured ==
    Returned =>
        /\ result.overall_status \in TerminalStatuses
        /\ (\/ trace.auth \in {"fail", "raise"}
            \/ trace.ocr = "fail"
            \/ trace.gemini_validation = "fail"
            \/ trace.face = "fail"
            \/ trace.quality = "fail"
            \/ trace.liveness = "fail"
            \/ trace.raised_in # "none")
               => (result.errors # <<>> \/ result.warnings # <<>>)

\* C5: with remote extraction enabled and the extraction service answering
\* failure, errors holds the extraction-failure message, parsed_data is
\* empty, validate_document_data is not called, the validation report stays
\* empty and errors holds no 'Missing required field' entry.
C5_ExtractionFailureSkipsValidation ==
    (doc.use_gemini /\ trace.ocr = "fail") =>
        /\ Has(result.errors, "Gemini OCR failed")
        /\ DOMAIN result.parsed_data = {}
        /\ result.validation = <<>>
        /\ ~trace.validate_called
        /\ ~Has(result.errors, "Missing required field")

\* a returned run whose extraction failed
C5_Witness ==
    /\ Returned /\ doc.use_gemini /\ trace.ocr = "fail"
    /\ "validation" \in trace.stages
    /\ result.overall_status = "completed_with_errors"

\* C6 (as claimed): with use_gemini = false, parsed_data is the cleaned
\* regex FieldMap of the recognized text, and validation runs on it when it
\* is non-empty.
C6_RegexFallback ==
    (Returned /\ ~doc.use_gemini /\ trace.raised_in = "none") =>
        /\ result.parsed_data = ParseDocument(doc.raw_text, doc.document_type)
        /\ DOMAIN result.parsed_data # {} => trace.validate_called

\* C7 (as claimed): when the authenticity check fails (answers failure, or
\* raises), the run records the warning, leaves authenticity_check empty,
\* adds no error for that stage and goes on with the later stages.
C7_AuthenticityFailureIsWarning ==
    (Returned /\ trace.auth \in {"fail", "raise"}
         /\ trace.raised_in \in {"none", "authenticity"}) =>
        /\ Has(result.warnings, "Could not perform image authenticity check.")
        /\ result.authenticity_check = <<>>
        /\ ~Has(result.errors, "Processing failed")
        /\ {"extraction", "validation", "face"} \subseteq trace.stages

\* C8 (as claimed): a successful cloud check puts the cloud verdict in
\* authenticity_check; a failed one makes the local heuristic scorer's
\* verdict populate authenticity_check.
C8_LocalScorerIsFallback ==
    /\ trace.auth = "ok" =>
           /\ result.authenticity_check # <<>>
           /\ result.authenticity_check[1].detection_method = "gemini"
    /\ trace.auth = "fail" =>
           /\ result.authenticity_check # <<>>
           /\ result.authenticity_check[1].detection_method = "offline_heuristic"

\* C9 (as claimed): the FieldMap passed to validate_document_data holds no
\* null, empty, whitespace-only or 'null' value.
C9_ValidationSeesCleanedFields ==
    trace.validate_called =>
        \A k \in DOMAIN trace.validate_arg : ~IsPlaceholder(trace.validate_arg[k])

\* C10 (as claimed): _validate_and_clean_data drops exactly the placeholder
\* values, keeps every other string trimmed, and keeps every value that is
\* not a string (0, False and empty collections too) unchanged under its key.
C10_CleanContract ==
    cleanPc = "returned" =>
        /\ DOMAIN cleanOut \subseteq DOMAIN cleanIn
        /\ \A k \in DOMAIN cleanIn :
              IF IsPlaceholder(cleanIn[k]) THEN k \notin DOMAIN cleanOut
              ELSE /\ k \in DOMAIN cleanOut
                   /\ cleanOut[k] = IF cleanIn[k].t = "str"
                                    THEN StrVal(Strip(cleanIn[k].s))
                                    ELSE cleanIn[k]

\* how many times the message occurs in the list
Count(list, m) == Cardinality({i \in 1..Len(list) : list[i] = m})

\* a FieldMap value that is null or the empty string
IsEmptyValue(v) == v.t = "none" \/ v = StrVal(<<>>)

\* the first call of the caller has been made
FirstCalled == valPc \in {"between", "done"}

\* C11 (as claimed): for every FieldMap and document type the call returns a
\* report with exactly one 'Missing required field: <name>' error for each
\* required field that is absent or empty and none for a required field with
\* a non-empty value; for the empty FieldMap the report has one error per
\* required field and is_valid is false.
C11_RequiredFieldErrors ==
    FirstCalled =>
        /\ ~valFirst.raised
        /\ LET required == REQUIRED_FIELDS(valType)
               errors == valFirst.report[1].errors
           IN /\ \A i \in 1..Len(required) :
                    Count(errors, Msg("Missing required field", required[i])) =
                        IF required[i] \notin DOMAIN valData \/ IsEmptyValue(valData[required[i]])
                        THEN 1 ELSE 0
              /\ (valData = EmptyDict /\ Len(required) > 0) =>
                     /\ Len(errors) = Len(required)
                     /\ ~valFirst.report[1].is_valid

\* the identifier field with a format rule, and the error of that rule
IdField(document_type) ==
    CASE document_type = "pan" -> "pan_number"
      [] document_type = "aadhaar" -> "aadhaar_number"
      [] document_type = "passport" -> "passport_number"

FormatError(document_type) ==
    CASE document_type = "pan" -> Msg("Invalid PAN number format", "")
      [] document_type = "aadhaar" -> Msg("Invalid Aadhaar number format", "")
      [] document_type = "passport" -> Msg("Invalid passport number format", "")

RECURSIVE RemoveWhitespace(_)
RemoveWhitespace(s) ==
    IF s = <<>> THEN <<>>
    ELSE IF Head(s) \in Whitespace THEN RemoveWhitespace(Tail(s))
    ELSE <<Head(s)>> \o RemoveWhitespace(Tail(s))

\* the identifier has the fixed pattern of its type (Aadhaar: once its
\* internal whitespace is removed)
HasIdPattern(document_type, s) ==
    PatternBody(IdField(document_type),
                IF document_type = "aadhaar" THEN RemoveWhitespace(s) ELSE s)

\* C12 (as claimed): for pan, aadhaar and passport the call returns a report
\* in which a present identifier that does not have the pattern of its type
\* has exactly one format error, one that has the pattern has none, and an
\* absent or empty identifier has the missing-field error and no format error.
C12_FormatCheckOnlyWhenPresent ==
    (FirstCalled /\ valType \in {"pan", "aadhaar", "passport"}) =>
        /\ ~valFirst.raised
        /\ LET f == IdField(valType)
               errors == valFirst.report[1].errors
               format_errors == Count(errors, FormatError(valType))
           IN IF f \notin DOMAIN valData \/ IsEmptyValue(valData[f])
              THEN format_errors = 0 /\ Count(errors, Msg("Missing required field", f)) = 1
              ELSE IF HasIdPattern(valType, valData[f].s)
              THEN format_errors = 0
              ELSE format_errors = 1

FutureError == Msg("Date of birth cannot be in the future", "")

\* day d comes after day t
StrictlyAfter(d, t) ==
    \/ d[1] > t[1]
    \/ d[1] = t[1] /\ d[2] > t[2]
    \/ d[1] = t[1] /\ d[2] = t[2] /\ d[3] > t[3]

\* C13 (as claimed): for every FieldMap with a dob the call returns a report
\* in which a dob that parses (first layout that fits) to a date after now has
\* exactly one 'future' error, a dob that fits no layout has a warning and no
\* date error, and a dob that parses to a date not after now (such as one 30
\* years back) has neither.
C13_DobCheck ==
    (FirstCalled /\ "dob" \in DOMAIN valData) =>
        /\ ~valFirst.raised
        /\ LET report == valFirst.report[1]
               parsed == ParseDob(valData["dob"])
           IN IF parsed = <<>>
              THEN Len(report.warnings) = 1 /\ Count(report.errors, FutureError) = 0
              ELSE IF StrictlyAfter(parsed, valFirstNow)
              THEN Count(report.errors, FutureError) = 1 /\ report.warnings = <<>>
              ELSE Count(report.errors, FutureError) = 0 /\ report.warnings = <<>>

\* C14 (as claimed): the second call returns what the first call returned,
\* whatever happened in between, the clock advancing included.
C14_SameReportTwice ==
    valPc = "done" => valSecond = valFirst

\* the dob of the FieldMap was in the future at the first call and no longer
\* is at the second
DobBecamePast ==
    /\ ~ValidateRaises(valData, valType)
    /\ "dob" \in DOMAIN valData
    /\ ParseDob(valData["dob"]) # <<>>
    /\ StrictlyAfter(ParseDob(valData["dob"]), valFirstNow)
    /\ ~StrictlyAfter(ParseDob(valData["dob"]), valNow)

\* C14 (amended): the two calls do the same (raise, or return identical
\* reports), whatever other validation ran in between, except when the clock
\* moved past the dob between them: then, and only then, they differ; and no
\* call changes the FieldMap or the document type it was given.
C14_SameReportUnlessDobPassed ==
    /\ [](valPc = "done" => ((valSecond = valFirst) <=> ~DobBecamePast))
    /\ [][valData' = valData /\ valType' = valType]_valVars

\* both calls made with another validation and a clock change in between,
\* and the same report returned
C14_Witness ==
    /\ valPc = "done"
    /\ StrictlyAfter(valNow, valFirstNow)
    /\ valOther # NotCalled
    /\ "dob" \in DOMAIN valData
    /\ ~valFirst.raised
    /\ valSecond = valFirst

\* the text holds a run of exactly twelve digits, compact or split 4-4-4 by
\* single whitespace characters, that is not part of a longer word
AadhaarPatternMatches(text) == Search("aadhaar_number", text) # <<>>

\* the twelve digits of the match, whitespace removed
MatchedDigits(text) == RemoveWhitespace(Search("aadhaar_number", text))

\* C15 (as claimed): whenever the Aadhaar pattern matches the raw text, the
\* extracted aadhaar_number is the twelve digits as three groups of four
\* separated by single spaces, and validating the extracted FieldMap reports
\* no Aadhaar format error.
C15_AadhaarRoundTrip ==
    (rtPc = "done" /\ AadhaarPatternMatches(rtText)) =>
        /\ "aadhaar_number" \in DOMAIN rtParsed
        /\ rtParsed["aadhaar_number"] =
               StrVal(SubSeq(MatchedDigits(rtText), 1, 4) \o <<" ">>
                      \o SubSeq(MatchedDigits(rtText), 5, 8) \o <<" ">>
                      \o SubSeq(MatchedDigits(rtText), 9, 12))
        /\ ~rtReport.raised
        /\ Count(rtReport.report[1].errors, FormatError("aadhaar")) = 0

\* detect returned a verdict
VerdictReturned == detReturn # <<>> /\ detReturn[1].success

\* the declared maximum of each analyzer
InBands(s) ==
    /\ s.exif \in 0..25
    /\ s.frequency \in 0..20
    /\ s.histogram \in 0..15
    /\ s.noise \in 0..25
    /\ s.artifacts \in 0..20

\* C16: every sub-score, as soon as its analyzer has returned and in the
\* returned verdict, lies within its band (metadata 0..25, frequency 0..20,
\* histogram 0..15, noise 0..25, artifacts 0..20); the returned total is the
\* sum of the five and confidence_score lies in 0..100.
C16_ScoresWithinBands ==
    /\ InBands(detScores)
    /\ VerdictReturned =>
           LET a == detReturn[1].authenticity[1] IN
           /\ InBands(a.scores)
           /\ a.scores.total = a.scores.exif + a.scores.frequency + a.scores.histogram
                                   + a.scores.noise + a.scores.artifacts
           /\ a.confidence_score \in 0..100

\* a verdict in which every analyzer gave its maximum
C16_Witness ==
    /\ VerdictReturned
    /\ detReturn[1].authenticity[1].scores =
           [exif |-> 25, frequency |-> 20, histogram |-> 15, noise |-> 25,
            artifacts |-> 20, total |-> 105]

\* C17 (as claimed): is_ai_generated holds exactly when total >= 40, and
\* confidence_score is min(100, total / 120 * 100 rounded to the nearest
\* integer).
C17_ThresholdAndRoundedConfidence ==
    VerdictReturned =>
        LET a == detReturn[1].authenticity[1]
            gap == a.confidence_score * 120 - a.scores.total * 100
        IN /\ a.is_ai_generated <=> a.scores.total >= 40
           /\ IF a.scores.total >= 120 THEN a.confidence_score = 100
              ELSE 2 * gap <= 120 /\ 2 * gap >= -120

\* C18 (as claimed): detect always returns, and when an exception was raised
\* inside an analyzer a verdict is still returned in which that analyzer
\* contributes 0.
C18_FailedAnalyzerScoresZero ==
    detPc = "done" =>
        /\ detReturn # <<>>
        /\ detFailed # {} =>
               /\ VerdictReturned
               /\ \A a \in detFailed : detReturn[1].authenticity[1].scores[a] = 0

\* the analyzers in the order of their findings, and the least sub-score
\* that makes a finding
FindingOrder == <<"exif", "frequency", "histogram", "noise", "artifacts">>

Notable(a) == IF a \in {"exif", "noise", "artifacts"} THEN 15 ELSE 10

FindingText(a) ==
    CASE a = "exif" -> "missing or suspicious EXIF metadata"
      [] a = "frequency" -> "unusual frequency domain patterns"
      [] a = "histogram" -> "unnatural color distribution"
      [] a = "noise" -> "artificial noise characteristics"
      [] a = "artifacts" -> "lack of natural JPEG compression artifacts"

ExpectedFindings(scores) ==
    LET notable == SelectSeq(FindingOrder, LAMBDA a : scores[a] >= Notable(a))
    IN [i \in 1..Len(notable) |-> FindingText(notable[i])]

ExpectedLabel(total) ==
    IF total >= 60 THEN "High" ELSE IF total >= 40 THEN "Medium"
    ELSE IF total >= 20 THEN "Low" ELSE "Very Low"

AppearsAuthentic == "appears to be authentic with natural characteristics"

\* C19 (as claimed): the findings are those of the sub-scores that reach
\* their notable threshold, in the fixed order, with the confidence label of
\* the total; and whenever there is no finding the explanation is the
\* 'appears authentic' sentence.
C19_GenericWhenNoFindings ==
    VerdictReturned =>
        LET a == detReturn[1].authenticity[1] IN
        /\ a.explanation.details = ExpectedFindings(a.scores)
        /\ a.explanation.details # <<>> =>
               a.explanation.confidence = <<ExpectedLabel(a.scores.total)>>
        /\ a.explanation.details = <<>> => a.explanation.verdict = AppearsAuthentic

\* C19 (amended): the findings are those of the sub-scores that reach their
\* notable threshold, in the fixed order; the confidence label of the total
\* is given exactly when there is a finding; the verdict sentence is chosen
\* by the total alone, and is the 'appears authentic' sentence exactly when
\* total < 20, whether or not there are findings.
C19_ExplanationFromScores ==
    VerdictReturned =>
        LET a == detReturn[1].authenticity[1] IN
        /\ a.explanation.details = ExpectedFindings(a.scores)
        /\ a.explanation.confidence =
               IF a.explanation.details # <<>> THEN <<ExpectedLabel(a.scores.total)>>
               ELSE <<>>
        /\ a.explanation.verdict = AppearsAuthentic <=> a.scores.total < 20

\* a verdict without findings whose total still classifies the image as
\* AI-generated
C19_Witness ==
    /\ VerdictReturned
    /\ detReturn[1].authenticity[1].explanation.details = <<>>
    /\ detReturn[1].authenticity[1].scores.total >= 40
    /\ detReturn[1].authenticity[1].is_ai_generated
    /\ detReturn[1].authenticity[1].explanation.verdict # AppearsAuthentic


\* the statuses a job does not leave
TerminalJobStatuses ==
    {"completed", "completed_with_warnings", "completed_with_errors", "failed"}

\* the status changes of a job that go forward
ForwardChanges ==
    {<<"pending", "processing">>} \cup {<<"processing", s>> : s \in TerminalJobStatuses}

\* C20: in every step of any interleaving of uploads, process requests,
\* background task steps, polls and deletions, a job that appears in the job
\* tracker appears with status PENDING, and a job whose status changes goes
\* from PENDING to PROCESSING or from PROCESSING to a terminal status: a
\* terminal status is taken only after PROCESSING, is never left, and no job
\* goes back to PENDING.
C20_JobLifecycle ==
    [][\A j \in JobIds :
          /\ (j \notin DOMAIN processing_jobs /\ j \in DOMAIN processing_jobs')
                 => processing_jobs'[j].status = "pending"
          /\ (j \in DOMAIN processing_jobs /\ j \in DOMAIN processing_jobs'
                  /\ processing_jobs'[j].status # processing_jobs[j].status)
                 => <<processing_jobs[j].status, processing_jobs'[j].status>>
                        \in ForwardChanges]_vars

\* one job has completed, another has failed because its document was deleted
\* before the background task looked it up, and a poll has seen a terminal status
C20_Witness ==
    /\ \E j \in DOMAIN processing_jobs, k \in DOMAIN processing_jobs :
          /\ processing_jobs[j].status = "completed"
          /\ processing_jobs[k].status = "failed"
          /\ processing_jobs[k].message = "Document not found"
    /\ response.op = "status"
    /\ response.status \in TerminalJobStatuses

\* C21: in every step, the progress of every job in the job tracker is at
\* least what it was before the step: no step of a background task, its
\* failure paths included, lowers the progress a poller can read.
C21_ProgressNeverLowers ==
    [][\A j \in JobIds :
          (j \in DOMAIN processing_jobs /\ j \in DOMAIN processing_jobs')
              => processing_jobs'[j].progress >= processing_jobs[j].progress]_vars

\* the background task of job j has executed processing_results[document_id] = result
Wrote(j) == At(j, "end") /\ bgTasks[j].result # "none"

\* C22: the document_id of a job never changes after its creation, and no two
\* jobs have written the same entry of the result store.
C22_OneJobOneResult ==
    /\ [](\A j \in JobIds, k \in JobIds :
              (Wrote(j) /\ Wrote(k) /\ bgTasks[j].document_id = bgTasks[k].document_id)
                  => j = k)
    /\ [][\A j \in JobIds :
              (j \in DOMAIN processing_jobs /\ j \in DOMAIN processing_jobs')
                  => processing_jobs'[j].document_id = processing_jobs[j].document_id]_vars

\* the task of job j takes a step
Steps(j) == j \in DOMAIN bgTasks /\ bgTasks'[j] # bgTasks[j]

\* the entry of key k is the same in store a and in store b (absent in both,
\* or present with the same value)
SameEntry(a, b, k) ==
    /\ (k \in DOMAIN a) <=> (k \in DOMAIN b)
    /\ k \in DOMAIN a => a[k] = b[k]

\* the job entry a run ends with when it runs alone, by the position from
\* which it ends: the lookup that found no document, the store of the
\* result, or the last write of the except handler
AloneJob(document_id, last) ==
    CASE last = "lookup" ->
             [document_id |-> document_id, status |-> "failed", progress |-> 25,
              message |-> "Document not found", completed_at |-> FALSE]
      [] last = "store" ->
             [document_id |-> document_id, status |-> "completed", progress |-> 100,
              message |-> "Processing completed successfully", completed_at |-> TRUE]
      [] OTHER ->
             [document_id |-> document_id, status |-> "failed", progress |-> 0,
              message |-> "Processing failed", completed_at |-> FALSE]

\* C23: when background runs for different documents interleave, a step of
\* the run of job j on document d leaves every other job entry and every
\* result entry but that of d unchanged, and the run ends with the job entry
\* it ends with when alone, and stores the result its pipeline call returned.
C23_RunsIndependent ==
    [][\A j \in DOMAIN bgTasks :
          Steps(j) =>
              LET d == bgTasks[j].document_id IN
              /\ \A k \in DOMAIN processing_jobs \ {j} :
                     processing_jobs'[k] = processing_jobs[k]
              /\ \A e \in (DOMAIN processing_results \cup DOMAIN processing_results') \ {d} :
                     SameEntry(processing_results, processing_results', e)
              /\ bgTasks'[j].pc = "end"
                     => /\ processing_jobs'[j] = AloneJob(d, bgTasks[j].pc)
                        /\ bgTasks[j].pc = "store"
                               => /\ d \in DOMAIN processing_results'
                                  /\ processing_results'[d].overall_status = bgTasks[j].result]_vars

\* both runs have ended, one with its result stored and one failed, and the
\* stored result is that of the document of the completed job
C23_Witness ==
    \E j \in DOMAIN bgTasks, k \in DOMAIN bgTasks :
        /\ bgTasks[j].document_id # bgTasks[k].document_id
        /\ At(j, "end") /\ At(k, "end")
        /\ processing_jobs[j].status = "completed"
        /\ processing_jobs[k].status = "failed"
        /\ bgTasks[j].document_id \in DOMAIN processing_results
        /\ bgTasks[k].document_id \notin DOMAIN processing_results

\* the last request was a process request for document id d, rejected with
\* 404 'Document not found'
Rejected(d) == response.op = "process" /\ response.code = 404 /\ response.id = d

\* C24: a process request for a document id that is not in the upload store
\* is rejected with 404; the step creates no job entry, schedules no
\* background task and stores no result, and no step after the rejection
\* stores a result for that id (checked on the steps taken while the
\* rejection is still the last response: one such step refutes 'ever').
C24_UnknownDocumentRejected ==
    [][\A d \in 0..MaxDocs :
          /\ (Rejected(d)' /\ response' # response)
                 => /\ d \notin uploaded_files
                    /\ processing_jobs' = processing_jobs
                    /\ bgTasks' = bgTasks
                    /\ processing_results' = processing_results
          /\ (Rejected(d) /\ d \notin DOMAIN processing_results)
                 => d \notin DOMAIN processing_results']_vars

\* C25: in every reachable state, a job whose status is COMPLETED has a
\* result for its document in the result store, so get_document_results
\* answers with the result and with neither 202 nor 404.
C25_CompletedHasResult ==
    \A j \in DOMAIN processing_jobs :
        processing_jobs[j].status = "completed"
            => processing_jobs[j].document_id \in DOMAIN processing_results

\* C26: in every reachable state, every document that has a result in the
\* result store is in the upload store: once delete_document has removed a
\* document, the result store holds no result for it, then or later.
C26_ResultsOnlyForUploaded ==
    DOMAIN processing_results \subseteq uploaded_files

\* C27: every job whose background task is scheduled eventually has status
\* COMPLETED or FAILED, whichever path the task takes (the document is
\* missing, the processor cannot be constructed, the pipeline returns).
C27_EventuallyTerminal ==
    \A j \in RunIds :
        (j \in DOMAIN bgTasks)
            ~> (j \in DOMAIN processing_jobs
                    /\ processing_jobs[j].status \in {"completed", "failed"})

\* the three ways a task ends have all happened in one run of the service:
\* a job failed by the except handler is there with a completed job or with
\* a job failed for a missing document, and all tasks have ended
C27_Witness ==
    /\ \E j \in DOMAIN bgTasks :
          /\ At(j, "end")
          /\ processing_jobs[j].status = "failed"
          /\ processing_jobs[j].message = "Processing failed"
    /\ \E k \in DOMAIN bgTasks :
          /\ At(k, "end")
          /\ \/ processing_jobs[k].status = "completed"
             \/ processing_jobs[k].message = "Document not found"
    /\ \A j \in DOMAIN bgTasks : At(j, "end")

\* C28: when the background task of a job has ended after process_document
\* returned a result, the status of the job is the overall_status of that
\* result: COMPLETED only for 'completed', and the corresponding status for
\* 'completed_with_warnings', 'completed_with_errors' and 'failed'.
C28_StatusAgreesWithResult ==
    \A j \in DOMAIN bgTasks :
        (At(j, "end") /\ bgTasks[j].result # "none")
            => processing_jobs[j].status = bgTasks[j].result

\* C29: in every report validate_document_data returns,
\* validation_details.required_fields_present is true exactly when errors
\* holds no 'Missing required field' entry.
C29_RequiredFieldsPresentFlag ==
    (FirstCalled /\ ~valFirst.raised) =>
        LET report == valFirst.report[1] IN
        report.validation_details.required_fields_present
            <=> (\A i \in 1..Len(report.errors) :
                     report.errors[i][1] # "Missing required field")

\* C30: for every document type and every FieldMap whose values are strings
\* or null, validate_document_data returns a report: the call does not raise.
C30_ValidateIsTotal ==
    FirstCalled => (~valFirst.raised /\ valFirst.report # <<>>)

====
